---- MODULE Spec2Model ----
(***************************************************************************)
(* A model of the four Bitbucket operator scripts:                         *)
(*   bitbucket_cloud_audit.py          (script = "audit")                  *)
(*   bitbucket_code_search_replace.py  (script = "search")                 *)
(*   create_bitbucket_project.py       (script = "provision")              *)
(*   bitbucket_repo_info.py            (script = "inspect")                *)
(* One run of one script is one behaviour.  The platform is the            *)
(* environment: every HTTP response and every git outcome is chosen        *)
(* nondeterministically when the script asks for it.  A paginated          *)
(* endpoint is served page by page; a page that was served once is served  *)
(* unchanged when the same endpoint is fetched again.                      *)
(***************************************************************************)
EXTENDS Integers, Sequences, FiniteSets, TLC

\* ---------------------------------------------------------------- bounds
MaxPages == 2
MaxPageLen == 1
MaxHits == 2
MaxFetches == 4
MaxPermPages == 2
MaxPermLen == 2
MaxNameLen == 3
MaxAttempts == 2

\* ------------------------------------------------------------- utilities
Range(s) == {s[i] : i \in 1..Len(s)}

SeqsUpTo(S, n) == UNION {[1..k -> S] : k \in 0..n}

RECURSIVE Flatten(_)
Flatten(ss) == IF ss = <<>> THEN <<>> ELSE Head(ss) \o Flatten(Tail(ss))

Map(f(_), s) == [i \in 1..Len(s) |-> f(s[i])]

Last(s) == s[Len(s)]

Take(s, n) == SubSeq(s, 1, IF n < Len(s) THEN n ELSE Len(s))

None == 0

VARIABLES
    script,            \* which script this run executes
    pc,                \* position in the script
    error,             \* the exception that ended the run, "none" otherwise
    \* paginated loops (audit, search)
    endpoint,          \* the loop's endpoint variable: page number, None = 0
    served,            \* the pages the server has served for this collection
    fetches,           \* GET requests issued by the current pagination loop
    data,              \* the page response in hand (repository_list, project_list, data)
    idx,               \* position of the for loop in the page in hand
    \* bitbucket_cloud_audit.py
    groups, repositories, projects,
    perm_pages,        \* the group-permission pages of the last nested call
    yaml_output,       \* the content written to the output file
    \* bitbucket_code_search_replace.py
    all_repositories, ri, log, workdirs, os_name,
    \* create_bitbucket_project.py
    project_name, business_area, project_key,
    exists_yes, exists_no, attempts, last_check, collided, calls,
    \* bitbucket_repo_info.py
    reads, default_reviewers, merge_checks, branch_restrictions, report

pagingVars == <<endpoint, served, fetches, data, idx>>
auditVars == <<groups, repositories, projects, perm_pages, yaml_output>>
searchVars == <<all_repositories, ri, log, workdirs, os_name>>
provisionVars == <<project_name, business_area, project_key, exists_yes,
                   exists_no, attempts, last_check, collided, calls>>
inspectVars == <<reads, default_reviewers, merge_checks, branch_restrictions,
                 report>>
vars == <<script, pc, error, pagingVars, auditVars, searchVars,
          provisionVars, inspectVars>>

\* ----------------------------------------------------- the served pages
\* A response to a page GET: status, whether the body has 'values', the
\* items of 'values', and the 'next' field (None when absent).
Page(st, hv, vs, nx) == [status |-> st, has_values |-> hv, values |-> vs, next |-> nx]

NextChoices(k) == IF k < MaxPages THEN {None, k + 1} ELSE {None}

\* The pages a server can hold at endpoint k, its items drawn from Contents.
NewPages(k, Contents) ==
    {Page(200, TRUE, vs, nx) : vs \in Contents, nx \in NextChoices(k)}
    \cup {Page(200, FALSE, <<>>, nx) : nx \in NextChoices(k)}
    \cup {Page(500, FALSE, <<>>, None)}

NoPage == Page(0, FALSE, <<>>, None)

\* The response to GET of endpoint k, and the server's pages after it.
Responses(k, Contents) ==
    IF k <= Len(served) THEN {served[k]} ELSE NewPages(k, Contents)

Serve(k, page) == IF k <= Len(served) THEN served ELSE Append(served, page)

\* Slugs are assigned by the platform and are unique within the workspace:
\* the items of the pages are numbered in the order the server lists them.
ServedCount == Len(Flatten([i \in 1..Len(served) |-> served[i].values]))

NumberedItems == {[i \in 1..n |-> ServedCount + i] : n \in 0..MaxPageLen}

ServedItems == Flatten([i \in 1..Len(served) |-> served[i].values])

\* --------------------------------------------- bitbucket_cloud_audit.py
\* The items of the repositories and of the projects endpoint.
Repository(n) ==
    [slug |-> n, description |-> "", mainbranch |-> [name |-> "main"],
     is_private |-> TRUE, project |-> [key |-> "PRJ"]]

Project(n) == [name |-> n, key |-> n, description |-> ""]

RepositoryItems == {Map(Repository, ns) : ns \in NumberedItems}

ProjectItems == {Map(Project, ns) : ns \in NumberedItems}

Edge(n) == [group |-> [slug |-> n], permission |-> IF n % 2 = 1 THEN "read" ELSE "write"]

\* The group-permission pages a resource can have on the server: all its
\* edges on one page, or one edge on each of several pages.
PermPageSeqs ==
    {<<[i \in 1..MaxPermLen |-> i]>>, [p \in 1..MaxPermPages |-> <<p>>]}

PermResponses ==
    {[status |-> 200, has_values |-> TRUE, pages |-> Map(LAMBDA p : Map(Edge, p), pp)] :
        pp \in PermPageSeqs}
    \cup {[status |-> 200, has_values |-> FALSE, pages |-> <<>>],
          [status |-> 500, has_values |-> FALSE, pages |-> <<>>]}

\* api_get_request raises on every status but 200; main catches and prints.
Raise(what) ==
    /\ pc' = "aborted"
    /\ error' = what

\* The nested call and the loop over its 'values'.
GroupsInfo(resp) ==
    Map(LAMBDA g : [slug |-> g.group.slug, permission |-> g.permission], resp.pages[1])

\* The flat array the legacy groups endpoint returns.
GroupList ==
    {[i \in 1..2 |-> [name |-> i, slug |-> i, email_forwarding_disabled |-> FALSE,
                      members |-> <<[display_name |-> i, account_id |-> i, type |-> "user"]>>]]}

get_groups ==
    /\ script = "audit" /\ pc = "get_groups"
    /\ \E st \in {200, 500}, gl \in GroupList :
        IF st # 200
        THEN /\ Raise([kind |-> "http", at |-> "groups"])
             /\ UNCHANGED groups
        ELSE /\ groups' = Map(LAMBDA g : [name |-> g.name, slug |-> g.slug,
                                members |-> Map(LAMBDA m : [display_name |-> m.display_name,
                                                            account_id |-> m.account_id], g.members)], gl)
             /\ pc' = "get_repositories"
             /\ UNCHANGED error
    /\ UNCHANGED <<script, pagingVars, repositories, projects, perm_pages, yaml_output,
                   searchVars, provisionVars, inspectVars>>

get_repositories_start ==
    /\ script = "audit" /\ pc = "get_repositories"
    /\ endpoint' = 1
    /\ repositories' = <<>>
    /\ served' = <<>> /\ fetches' = 0 /\ data' = NoPage /\ idx' = 0
    /\ pc' = "repos_while"
    /\ UNCHANGED <<script, error, groups, projects, perm_pages, yaml_output,
                   searchVars, provisionVars, inspectVars>>

repositories_fetch ==
    /\ script = "audit" /\ pc = "repos_while" /\ endpoint # None
    /\ \E page \in Responses(endpoint, RepositoryItems) :
        /\ served' = Serve(endpoint, page)
        /\ fetches' = fetches + 1
        /\ data' = page
        /\ IF page.status # 200
           THEN Raise([kind |-> "http", at |-> "repositories"]) /\ UNCHANGED idx
           ELSE IF ~page.has_values
           THEN Raise([kind |-> "KeyError", at |-> "repositories"]) /\ UNCHANGED idx
           ELSE pc' = "repos_for" /\ idx' = 1 /\ UNCHANGED error
    /\ UNCHANGED <<script, endpoint, auditVars, searchVars, provisionVars, inspectVars>>

repositories_item ==
    /\ script = "audit" /\ pc = "repos_for" /\ idx <= Len(data.values)
    /\ \E resp \in PermResponses :
        /\ perm_pages' = resp.pages
        /\ IF resp.status # 200
           THEN Raise([kind |-> "http", at |-> "repository groups"])
                /\ UNCHANGED <<repositories, idx>>
           ELSE IF ~resp.has_values
           THEN Raise([kind |-> "KeyError", at |-> "repository groups"])
                /\ UNCHANGED <<repositories, idx>>
           ELSE /\ repositories' = Append(repositories,
                        [slug |-> data.values[idx].slug,
                         description |-> data.values[idx].description,
                         main_branchname |-> data.values[idx].mainbranch.name,
                         is_private |-> data.values[idx].is_private,
                         project_key |-> data.values[idx].project.key,
                         groups |-> GroupsInfo(resp)])
                /\ idx' = idx + 1
                /\ UNCHANGED <<pc, error>>
    /\ UNCHANGED <<script, endpoint, served, fetches, data, groups, projects, yaml_output,
                   searchVars, provisionVars, inspectVars>>

repositories_next ==
    /\ script = "audit" /\ pc = "repos_for" /\ idx > Len(data.values)
    /\ endpoint' = data.next
    /\ pc' = "repos_while"
    /\ UNCHANGED <<script, error, served, fetches, data, idx, auditVars,
                   searchVars, provisionVars, inspectVars>>

get_repositories_return ==
    /\ script = "audit" /\ pc = "repos_while" /\ endpoint = None
    /\ pc' = "get_projects"
    /\ UNCHANGED <<script, error, pagingVars, auditVars,
                   searchVars, provisionVars, inspectVars>>

get_repositories ==
    \/ get_repositories_start
    \/ repositories_fetch
    \/ repositories_item
    \/ repositories_next
    \/ get_repositories_return

get_projects_start ==
    /\ script = "audit" /\ pc = "get_projects"
    /\ projects' = <<>>
    /\ endpoint' = 1
    /\ served' = <<>> /\ fetches' = 0 /\ data' = NoPage /\ idx' = 0
    /\ pc' = "projs_while"
    /\ UNCHANGED <<script, error, groups, repositories, perm_pages, yaml_output,
                   searchVars, provisionVars, inspectVars>>

\* A variant of the fetch that treats a failed page as the end of the
\* collection and goes on to the report.
projects_fetch_breaks ==
    /\ script = "audit" /\ pc = "projs_while" /\ endpoint # None
    /\ fetches < MaxFetches
    /\ \E page \in Responses(endpoint, ProjectItems) :
        /\ served' = Serve(endpoint, page)
        /\ fetches' = fetches + 1
        /\ data' = page
        /\ IF page.status # 200
           THEN pc' = "yaml" /\ UNCHANGED <<idx, error>>
           ELSE IF ~page.has_values
           THEN Raise([kind |-> "KeyError", at |-> "projects"]) /\ UNCHANGED idx
           ELSE pc' = "projs_for" /\ idx' = 1 /\ UNCHANGED error
    /\ UNCHANGED <<script, endpoint, auditVars, searchVars, provisionVars, inspectVars>>

projects_fetch ==
    /\ script = "audit" /\ pc = "projs_while" /\ endpoint # None
    /\ fetches < MaxFetches
    /\ \E page \in Responses(endpoint, ProjectItems) :
        /\ served' = Serve(endpoint, page)
        /\ fetches' = fetches + 1
        /\ data' = page
        /\ IF page.status # 200
           THEN Raise([kind |-> "http", at |-> "projects"]) /\ UNCHANGED idx
           ELSE IF ~page.has_values
           THEN Raise([kind |-> "KeyError", at |-> "projects"]) /\ UNCHANGED idx
           ELSE pc' = "projs_for" /\ idx' = 1 /\ UNCHANGED error
    /\ UNCHANGED <<script, endpoint, auditVars, searchVars, provisionVars, inspectVars>>

\* The for body ends with the assignment of the next endpoint (line 157):
\* it runs once per project, and never for a page without projects.
projects_item ==
    /\ script = "audit" /\ pc = "projs_for" /\ idx <= Len(data.values)
    /\ \E resp \in PermResponses :
        /\ perm_pages' = resp.pages
        /\ IF resp.status # 200
           THEN Raise([kind |-> "http", at |-> "project groups"])
                /\ UNCHANGED <<projects, idx, endpoint>>
           ELSE IF ~resp.has_values
           THEN Raise([kind |-> "KeyError", at |-> "project groups"])
                /\ UNCHANGED <<projects, idx, endpoint>>
           ELSE /\ projects' = Append(projects,
                        [name |-> data.values[idx].name,
                         key |-> data.values[idx].key,
                         description |-> data.values[idx].description,
                         groups |-> GroupsInfo(resp)])
                /\ endpoint' = data.next
                /\ idx' = idx + 1
                /\ UNCHANGED <<pc, error>>
    /\ UNCHANGED <<script, served, fetches, data, groups, repositories, yaml_output,
                   searchVars, provisionVars, inspectVars>>

projects_next ==
    /\ script = "audit" /\ pc = "projs_for" /\ idx > Len(data.values)
    /\ pc' = "projs_while"
    /\ UNCHANGED <<script, error, pagingVars, auditVars,
                   searchVars, provisionVars, inspectVars>>

get_projects_return ==
    /\ script = "audit" /\ pc = "projs_while" /\ endpoint = None
    /\ pc' = "yaml"
    /\ UNCHANGED <<script, error, pagingVars, auditVars,
                   searchVars, provisionVars, inspectVars>>

get_projects ==
    \/ get_projects_start
    \/ projects_fetch
    \/ projects_item
    \/ projects_next
    \/ get_projects_return

\* main: the three collections, then the YAML report.
write_yaml ==
    /\ script = "audit" /\ pc = "yaml"
    /\ yaml_output' = <<[groups |-> groups, repositories |-> repositories,
                         projects |-> projects]>>
    /\ pc' = "done"
    /\ UNCHANGED <<script, error, pagingVars, groups, repositories, projects, perm_pages,
                   searchVars, provisionVars, inspectVars>>

audit_main ==
    \/ get_groups
    \/ get_repositories
    \/ get_projects
    \/ write_yaml

\* -------------------------------------- bitbucket_code_search_replace.py
Repos == {"repoA", "repoB"}

workspace == "example-prod"

\* A code-search hit: the path of its file link, as path.split('/') sees it.
Hit(repo) ==
    [file |-> [links |-> [self |-> [href |->
        <<"", "2.0", "repositories", workspace, repo, "src", "c0ffee", "main.tf">>]]]]

Hits == {Map(Hit, rs) : rs \in SeqsUpTo(Repos, MaxHits)}

\* parsed_url.path.split('/')[4]
parsed_repository(item) == item.file.links.self.href[5]

\* Deduplication that keeps the last occurrence of every element.
RECURSIVE KeepLastOccurrence(_)
KeepLastOccurrence(l) ==
    IF l = <<>> THEN <<>>
    ELSE LET rest == KeepLastOccurrence(Tail(l))
         IN  IF Head(l) \in Range(rest) THEN rest ELSE <<Head(l)>> \o rest

\* list(dict.fromkeys(l)): the first occurrence of every element, in order.
RECURSIVE DictFromKeys(_)
DictFromKeys(l) ==
    IF l = <<>> THEN <<>>
    ELSE LET rest == DictFromKeys(SubSeq(l, 1, Len(l) - 1))
         IN  IF Last(l) \in Range(rest) THEN rest ELSE Append(rest, Last(l))

search_start ==
    /\ script = "search" /\ pc = "search_and_update_code"
    /\ endpoint' = 1
    /\ all_repositories' = <<>>
    /\ served' = <<>> /\ fetches' = 0 /\ data' = NoPage /\ idx' = 0
    /\ pc' = "search_while"
    /\ UNCHANGED <<script, error, auditVars, ri, log, workdirs, os_name, provisionVars, inspectVars>>

\* A variant of the loop that raises on a failed page, as the GET helper of
\* the audit does.
search_fetch_raises ==
    /\ script = "search" /\ pc = "search_while" /\ endpoint # None
    /\ \E page \in Responses(endpoint, Hits) :
        /\ served' = Serve(endpoint, page)
        /\ fetches' = fetches + 1
        /\ data' = page
        /\ IF page.status = 200
           THEN /\ all_repositories' = all_repositories \o Map(parsed_repository, page.values)
                /\ endpoint' = page.next
                /\ UNCHANGED <<pc, error>>
           ELSE /\ Raise([kind |-> "http", at |-> "search"])
                /\ UNCHANGED <<all_repositories, endpoint>>
    /\ UNCHANGED <<script, idx, auditVars, ri, log, workdirs, os_name, provisionVars, inspectVars>>

\* One iteration of the while loop: the GET, the items, the next endpoint;
\* any status but 200 prints and breaks.
search_fetch ==
    /\ script = "search" /\ pc = "search_while" /\ endpoint # None
    /\ \E page \in Responses(endpoint, Hits) :
        /\ served' = Serve(endpoint, page)
        /\ fetches' = fetches + 1
        /\ data' = page
        /\ IF page.status = 200
           THEN /\ all_repositories' = all_repositories \o Map(parsed_repository, page.values)
                /\ endpoint' = page.next
                /\ UNCHANGED pc
           ELSE /\ pc' = "dedupe"
                /\ UNCHANGED <<all_repositories, endpoint>>
    /\ UNCHANGED <<script, error, idx, auditVars, ri, log, workdirs, os_name, provisionVars, inspectVars>>

search_while_exit ==
    /\ script = "search" /\ pc = "search_while" /\ endpoint = None
    /\ pc' = "dedupe"
    /\ UNCHANGED <<script, error, pagingVars, auditVars, searchVars, provisionVars, inspectVars>>

dedupe ==
    /\ script = "search" /\ pc = "dedupe"
    /\ all_repositories' = DictFromKeys(all_repositories)
    /\ ri' = 1
    /\ pc' = "for_repository"
    /\ UNCHANGED <<script, error, pagingVars, auditVars, log, workdirs, os_name, provisionVars, inspectVars>>

repository == all_repositories[ri]

local_repository == <<"tmp_", repository>>

Entry(step, ok) == [repo |-> repository, step |-> step, ok |-> ok]

\* A source-control step whose failure is printed and swallowed by the loop,
\* which goes on with the next repository.
GitStepCaught(step, here, there, dirs) ==
    /\ script = "search" /\ pc = here /\ ri <= Len(all_repositories)
    /\ \E ok \in BOOLEAN :
        /\ log' = Append(log, Entry(step, ok))
        /\ IF ok
           THEN pc' = there /\ workdirs' = dirs /\ UNCHANGED ri
           ELSE pc' = "for_repository" /\ ri' = ri + 1 /\ UNCHANGED workdirs
    /\ UNCHANGED <<script, error, pagingVars, auditVars, all_repositories, os_name,
                   provisionVars, inspectVars>>

\* A source-control step: on failure it prints and re-raises, and nothing
\* between it and the except clause of the main code catches the exception.
GitStep(step, here, there, dirs) ==
    /\ script = "search" /\ pc = here /\ ri <= Len(all_repositories)
    /\ \E ok \in BOOLEAN :
        /\ log' = Append(log, Entry(step, ok))
        /\ IF ok
           THEN pc' = there /\ workdirs' = dirs /\ UNCHANGED error
           ELSE Raise([kind |-> "GitCommandError", at |-> step]) /\ UNCHANGED workdirs
    /\ UNCHANGED <<script, pagingVars, auditVars, all_repositories, ri, os_name,
                   provisionVars, inspectVars>>

clone_repository ==
    GitStep("clone", "for_repository", "branch", workdirs \cup {local_repository})

create_and_switch_branch == GitStep("branch", "branch", "edit", workdirs)

update_references == GitStep("edit", "edit", "commit", workdirs)

stage_and_commit == GitStep("commit", "commit", "push", workdirs)

\* A push after which the repository is cleaned up without a change request.
push_changes_then_cleanup == GitStep("push", "push", "cleanup", workdirs)

push_changes == GitStep("push", "push", "create_pr", workdirs)

\* Any status but 201 is printed; the function returns either way.
create_pr ==
    /\ script = "search" /\ pc = "create_pr"
    /\ \E status \in {201, 400} : log' = Append(log, Entry("create_pr", status = 201))
    /\ pc' = "cleanup"
    /\ UNCHANGED <<script, error, pagingVars, auditVars, all_repositories, ri, workdirs,
                   os_name, provisionVars, inspectVars>>

\* rmdir on Windows, skipped elsewhere; every exception is caught.
cleanup_repository ==
    /\ script = "search" /\ pc = "cleanup"
    /\ \E removed \in BOOLEAN :
        /\ log' = Append(log, Entry("cleanup", os_name = "nt" /\ removed))
        /\ workdirs' = IF os_name = "nt" /\ removed
                       THEN workdirs \ {local_repository} ELSE workdirs
    /\ pc' = "input"
    /\ UNCHANGED <<script, error, pagingVars, auditVars, all_repositories, ri,
                   os_name, provisionVars, inspectVars>>

press_enter ==
    /\ script = "search" /\ pc = "input"
    /\ log' = Append(log, Entry("input", TRUE))
    /\ ri' = ri + 1
    /\ pc' = "for_repository"
    /\ UNCHANGED <<script, error, pagingVars, auditVars, all_repositories, workdirs,
                   os_name, provisionVars, inspectVars>>

search_return ==
    /\ script = "search" /\ pc = "for_repository" /\ ri > Len(all_repositories)
    /\ pc' = "done"
    /\ UNCHANGED <<script, error, pagingVars, auditVars, searchVars, provisionVars, inspectVars>>

search_and_update_code ==
    \/ search_start
    \/ search_fetch
    \/ search_while_exit
    \/ dedupe
    \/ clone_repository
    \/ create_and_switch_branch
    \/ update_references
    \/ stage_and_commit
    \/ push_changes
    \/ create_pr
    \/ cleanup_repository
    \/ press_enter
    \/ search_return

\* ------------------------------------------- create_bitbucket_project.py
\* A string is a sequence of characters.  Eszett stands for U+00DF, one
\* character whose upper-case form is the two characters "SS".
Eszett == "sz"

LowerCase == <<"a", "b", "c", "d", "e", "f", "g", "h", "i", "j", "k", "l", "m",
               "n", "o", "p", "q", "r", "s", "t", "u", "v", "w", "x", "y", "z">>

UpperCase == <<"A", "B", "C", "D", "E", "F", "G", "H", "I", "J", "K", "L", "M",
               "N", "O", "P", "Q", "R", "S", "T", "U", "V", "W", "X", "Y", "Z">>

\* str.upper() of one character
upper_char(c) ==
    IF \E i \in 1..Len(LowerCase) : LowerCase[i] = c
    THEN <<UpperCase[CHOOSE i \in 1..Len(LowerCase) : LowerCase[i] = c]>>
    ELSE IF c = Eszett THEN <<"S", "S">> ELSE <<c>>

upper(str) == Flatten(Map(upper_char, str))

\* The key with the two prefixes in the other order.
generate_project_key_swapped(name, area) ==
    upper(Take(name, 3)) \o <<"_">> \o upper(Take(area, 3))

generate_project_key(name, area) ==
    upper(Take(area, 3)) \o <<"_">> \o upper(Take(name, 3))

\* The inputs of the key derivation: every string of up to MaxNameLen
\* characters over a letter, a capital, a digit and the eszett.
NameChars == {"a", "B", "1", Eszett}

Names == SeqsUpTo(NameChars, MaxNameLen)

\* The inputs of a provisioning run.
ProjectNames == {<<"a", "a", "a">>, <<"a", "b">>, <<"a", "a", "b">>, <<"a", "b", "c">>}

BusinessAreas == {<<"f", "i", "n">>, <<"i", "t">>}

\* random.sample(project_name, len(project_name)): every permutation
Shuffles(str) ==
    {[i \in 1..Len(str) |-> str[f[i]]] :
        f \in {g \in [1..Len(str) -> 1..Len(str)] :
                  \A i, j \in 1..Len(str) : g[i] = g[j] => i = j}}

Call(method, target, key, group, permission, auth, status, response) ==
    [method |-> method, target |-> target, key |-> key, group |-> group,
     permission |-> permission, auth |-> auth, status |-> status,
     response |-> response]

\* The statuses the platform can answer an existence check with: a project
\* that exists stays, one that does not is not created behind the script's
\* back; any check can fail with an error status.
CheckStatuses(key) ==
    IF key \in exists_yes THEN {200, 500}
    ELSE IF key \in exists_no THEN {404, 500}
    ELSE {200, 404, 500}

Learn(key, status) ==
    /\ exists_yes' = IF status = 200 THEN exists_yes \cup {key} ELSE exists_yes
    /\ exists_no' = IF status = 404 THEN exists_no \cup {key} ELSE exists_no

\* check_if_project_exists: the GET carries no credentials.  200 is True,
\* 404 is False, anything else prints response.json() and is False; a body
\* that is not JSON makes that print raise.
check_if_project_exists(key, status, json, ifTrue, ifFalse) ==
    /\ calls' = Append(calls, Call("GET", "project", key, <<>>, "", FALSE, status, <<>>))
    /\ Learn(key, status)
    /\ last_check' = status
    /\ IF status = 200 THEN ifTrue /\ UNCHANGED error
       ELSE IF status = 404 \/ json THEN ifFalse /\ UNCHANGED error
       ELSE Raise([kind |-> "JSONDecodeError", at |-> "check"])

propose_key ==
    /\ script = "provision" /\ pc = "generate_project_key"
    /\ project_key' = generate_project_key(project_name, business_area)
    /\ pc' = "check"
    /\ UNCHANGED <<script, error, pagingVars, auditVars, searchVars, project_name,
                   business_area, exists_yes, exists_no, attempts, last_check,
                   collided, calls, inspectVars>>

first_check ==
    /\ script = "provision" /\ pc = "check"
    /\ \E status \in CheckStatuses(project_key), json \in BOOLEAN :
        /\ check_if_project_exists(project_key, status, json,
                                   pc' = "unique", pc' = "create")
        /\ collided' = (status = 200)
    /\ UNCHANGED <<script, pagingVars, auditVars, searchVars, project_name,
                   business_area, project_key, attempts, inspectVars>>

\* One pass of the while True loop.
generate_unique_project_key ==
    /\ script = "provision" /\ pc = "unique"
    /\ attempts < MaxAttempts
    /\ \E shuffled_project_name \in Shuffles(project_name) :
        LET key == upper(Take(business_area, 3)) \o <<"_">>
                       \o upper(Take(shuffled_project_name, 3))
        IN  \E status \in CheckStatuses(key), json \in BOOLEAN :
                /\ check_if_project_exists(key, status, json,
                        pc' = "unique" /\ UNCHANGED project_key,
                        pc' = "create" /\ project_key' = key)
                /\ IF status # 200 /\ status # 404 /\ ~json
                   THEN UNCHANGED project_key ELSE TRUE
    /\ attempts' = attempts + 1
    /\ UNCHANGED <<script, pagingVars, auditVars, searchVars, project_name,
                   business_area, collided, inspectVars>>

\* The key the platform reports for the project it created.
ServerKeys(key) == {key, <<"S", "R", "V">>}

\* Step 3 without the return of the else branch.
create_project_no_return ==
    /\ script = "provision" /\ pc = "create"
    /\ \E status \in {201, 400}, created \in ServerKeys(project_key) :
        /\ calls' = Append(calls, Call("POST", "project", project_key, <<>>, "", TRUE, status,
                                       IF status = 201 THEN created ELSE <<>>))
        /\ project_key' = IF status = 201 THEN created ELSE project_key
        /\ pc' = "dev_group"
    /\ UNCHANGED <<script, error, pagingVars, auditVars, searchVars, project_name,
                   business_area, exists_yes, exists_no, attempts, last_check, collided,
                   inspectVars>>

\* Step 3: the POST; 201 continues with the key of the response, anything
\* else prints response.json() and returns.
create_project ==
    /\ script = "provision" /\ pc = "create"
    /\ \E status \in {201, 400}, created \in ServerKeys(project_key), json \in BOOLEAN :
        /\ calls' = Append(calls, Call("POST", "project", project_key, <<>>, "", TRUE, status,
                                       IF status = 201 THEN created ELSE <<>>))
        /\ IF status = 201
           THEN project_key' = created /\ pc' = "dev_group" /\ UNCHANGED error
           ELSE /\ UNCHANGED project_key
                /\ IF json THEN pc' = "done" /\ UNCHANGED error
                   ELSE Raise([kind |-> "JSONDecodeError", at |-> "create"])
    /\ UNCHANGED <<script, pagingVars, auditVars, searchVars, project_name, business_area,
                   exists_yes, exists_no, attempts, last_check, collided, inspectVars>>

GroupName(suffix) == <<business_area, "-", project_name, "-", suffix>>

\* create_group_and_set_permission, step 1: the group POST
create_group(suffix, here, permpc, there) ==
    /\ script = "provision" /\ pc = here
    /\ \E status \in {200, 400}, json \in BOOLEAN :
        /\ calls' = Append(calls, Call("POST", "group", <<>>, GroupName(suffix), "", TRUE,
                                       status, <<>>))
        /\ IF status = 200 THEN pc' = permpc /\ UNCHANGED error
           ELSE IF json THEN pc' = there /\ UNCHANGED error
           ELSE Raise([kind |-> "JSONDecodeError", at |-> "group"])
    /\ UNCHANGED <<script, pagingVars, auditVars, searchVars, project_name, business_area,
                   project_key, exists_yes, exists_no, attempts, last_check, collided,
                   inspectVars>>

\* create_group_and_set_permission, step 2: the permission PUT
set_permission(suffix, permission, here, there) ==
    /\ script = "provision" /\ pc = here
    /\ \E status \in {200, 400}, json \in BOOLEAN :
        /\ calls' = Append(calls, Call("PUT", "permission", project_key, GroupName(suffix),
                                       permission, TRUE, status, <<>>))
        /\ IF status = 200 \/ json THEN pc' = there /\ UNCHANGED error
           ELSE Raise([kind |-> "JSONDecodeError", at |-> "permission"])
    /\ UNCHANGED <<script, pagingVars, auditVars, searchVars, project_name, business_area,
                   project_key, exists_yes, exists_no, attempts, last_check, collided,
                   inspectVars>>

create_group_and_set_permission ==
    \/ create_group("Development", "dev_group", "dev_perm", "app_group")
    \/ set_permission("Development", "write", "dev_perm", "app_group")
    \/ create_group("AppSupport", "app_group", "app_perm", "done")
    \/ set_permission("AppSupport", "admin", "app_perm", "done")

create_project_and_groups ==
    \/ propose_key
    \/ first_check
    \/ generate_unique_project_key
    \/ create_project
    \/ create_group_and_set_permission

\* ------------------------------------------------ bitbucket_repo_info.py
\* The statuses of a response; a body that is not JSON makes
\* response.json() raise before the status is looked at.
Statuses == {200, 503}

\* default-reviewer conditions: a list of conditions, each with reviewers
Reviewer(n) == [displayName |-> n, emailAddress |-> n, id |-> n]

ReviewerBodies == {<<>>, <<[reviewers |-> <<>>]>>, <<[reviewers |-> <<Reviewer(1)>>]>>,
                   <<[reviewers |-> <<Reviewer(1), Reviewer(2)>>]>>}

MergeBodies ==
    {[needsWork |-> b, requiredAllApprovers |-> b, requiredAllTasksComplete |-> FALSE,
      requiredApprovers |-> n, requiredSuccessfulBuilds |-> 0] : b \in BOOLEAN, n \in 0..1}

Restriction(branch, type) == [matcher |-> [id |-> branch], type |-> type]

RestrictionBodies ==
    {[values |-> Map(LAMBDA p : Restriction(p[1], p[2]), ps)] :
        ps \in SeqsUpTo({<<"main", "read-only">>, <<"main", "pull-request-only">>,
                         <<"dev", "read-only">>}, 2)}

\* the loop of get_branch_restrictions: branch id -> its distinct types
RECURSIVE Restrictions(_)
Restrictions(items) ==
    IF items = <<>> THEN <<>>
    ELSE LET acc == Restrictions(SubSeq(items, 1, Len(items) - 1))
             item == Last(items)
             at == {i \in 1..Len(acc) : acc[i].branch = item.matcher.id}
         IN  IF at = {} THEN Append(acc, [branch |-> item.matcher.id, types |-> <<item.type>>])
             ELSE LET i == CHOOSE i \in at : TRUE
                  IN  IF item.type \in Range(acc[i].types) THEN acc
                      ELSE [acc EXCEPT ![i].types = Append(@, item.type)]

ReviewersOf(body) ==
    Map(LAMBDA item : [displayName |-> item.displayName,
                       emailAddress |-> item.emailAddress], body[1].reviewers)

MergeChecksOf(body) ==
    <<body.needsWork, body.requiredAllApprovers, body.requiredAllTasksComplete,
      body.requiredApprovers, body.requiredSuccessfulBuilds>>

\* The GET of a read and its response.json(), which raises on a body that
\* is not JSON whatever the status.
Get(name, status, json) ==
    /\ script = "inspect"
    /\ reads' = Append(reads, [name |-> name, status |-> status, json |-> json])
    /\ UNCHANGED <<script, pagingVars, auditVars, searchVars, provisionVars>>

get_default_reviewers ==
    /\ pc = "get_default_reviewers"
    /\ \E status \in Statuses, json \in BOOLEAN, body \in ReviewerBodies :
        /\ Get("default_reviewers", status, json)
        /\ IF ~json
           THEN /\ Raise([kind |-> "JSONDecodeError", at |-> "default_reviewers"])
                /\ UNCHANGED <<default_reviewers, report>>
           ELSE IF status = 200 /\ body = <<>>
           THEN /\ Raise([kind |-> "IndexError", at |-> "default_reviewers"])
                /\ UNCHANGED <<default_reviewers, report>>
           ELSE /\ default_reviewers' = IF status = 200 THEN ReviewersOf(body) ELSE <<>>
                /\ report' = Append(report, "Default Reviewers")
                /\ pc' = "get_merge_checks"
                /\ UNCHANGED error
    /\ UNCHANGED <<merge_checks, branch_restrictions>>

get_merge_checks ==
    /\ pc = "get_merge_checks"
    /\ \E status \in Statuses, json \in BOOLEAN, body \in MergeBodies :
        /\ Get("merge_checks", status, json)
        /\ IF ~json
           THEN /\ Raise([kind |-> "JSONDecodeError", at |-> "merge_checks"])
                /\ UNCHANGED <<merge_checks, report>>
           ELSE /\ merge_checks' = IF status = 200 THEN MergeChecksOf(body) ELSE <<>>
                /\ report' = Append(report, "Merge Checks")
                /\ pc' = "get_branch_restrictions"
                /\ UNCHANGED error
    /\ UNCHANGED <<default_reviewers, branch_restrictions>>

get_branch_restrictions ==
    /\ pc = "get_branch_restrictions"
    /\ \E status \in Statuses, json \in BOOLEAN, body \in RestrictionBodies :
        /\ Get("branch_restrictions", status, json)
        /\ IF ~json
           THEN /\ Raise([kind |-> "JSONDecodeError", at |-> "branch_restrictions"])
                /\ UNCHANGED <<branch_restrictions, report>>
           ELSE /\ branch_restrictions' =
                        IF status = 200 THEN Restrictions(body.values) ELSE <<>>
                /\ report' = Append(report, "Branch Restrictions")
                /\ pc' = "done"
                /\ UNCHANGED error
    /\ UNCHANGED <<default_reviewers, merge_checks>>

repo_info_main ==
    \/ get_default_reviewers
    \/ get_merge_checks
    \/ get_branch_restrictions

\* ------------------------------------------------------- specifications
InitCommon ==
    /\ error = [kind |-> "none", at |-> ""]
    /\ endpoint = None /\ served = <<>> /\ fetches = 0 /\ data = NoPage /\ idx = 0
    /\ groups = <<>> /\ repositories = <<>> /\ projects = <<>>
    /\ perm_pages = <<>> /\ yaml_output = <<>>
    /\ all_repositories = <<>> /\ ri = 0 /\ log = <<>> /\ workdirs = {}
    /\ project_key = <<>>
    /\ exists_yes = {} /\ exists_no = {} /\ attempts = 0 /\ last_check = 0
    /\ collided = FALSE /\ calls = <<>>
    /\ reads = <<>> /\ default_reviewers = <<>> /\ merge_checks = <<>>
    /\ branch_restrictions = <<>> /\ report = <<>>

InitAudit ==
    /\ script = "audit" /\ pc = "get_groups"
    /\ os_name = "posix" /\ project_name = <<>> /\ business_area = <<>>
    /\ InitCommon

InitSearch ==
    /\ script = "search" /\ pc = "search_and_update_code"
    /\ os_name \in {"nt", "posix"} /\ project_name = <<>> /\ business_area = <<>>
    /\ InitCommon

InitProvision ==
    /\ script = "provision" /\ pc = "generate_project_key"
    /\ os_name = "posix"
    /\ project_name \in ProjectNames /\ business_area \in BusinessAreas
    /\ InitCommon

InitKey ==
    /\ script = "provision" /\ pc = "generate_project_key"
    /\ os_name = "posix"
    /\ project_name \in Names /\ business_area \in Names
    /\ InitCommon

InitInspect ==
    /\ script = "inspect" /\ pc = "get_default_reviewers"
    /\ os_name = "posix" /\ project_name = <<>> /\ business_area = <<>>
    /\ InitCommon

SpecAudit == InitAudit /\ [][audit_main]_vars

SpecSearch == InitSearch /\ [][search_and_update_code]_vars

SpecProvision == InitProvision /\ [][create_project_and_groups]_vars

SpecKey == InitKey /\ [][propose_key]_vars

SpecInspect == InitInspect /\ [][repo_info_main]_vars

Init == InitAudit \/ InitSearch \/ InitProvision \/ InitInspect

Next ==
    \/ audit_main
    \/ search_and_update_code
    \/ create_project_and_groups
    \/ repo_info_main

Spec == Init /\ [][Next]_vars

\* ================================================================ claims
GitSteps == {"clone", "branch", "edit", "commit", "push"}

Terminated == pc \in {"done", "aborted"}

\* ---------------------------------------------------------------- C1
\* C1: a paginated collection over N pages, only the last without 'next',
\* fetches every page exactly once (N fetches) and returns the
\* concatenation of the pages' items in page order.  Stated of the two
\* loops of the audit: while all served pages are successful the number of
\* fetches equals the number of pages served, and what get_repositories
\* and get_projects return is the concatenation of the served items.
AllServedOk == \A i \in 1..Len(served) : served[i].status = 200 /\ served[i].has_values

C1_ExactlyNPagesInOrder ==
    /\ (pc \in {"repos_while", "repos_for", "get_projects", "projs_while", "projs_for", "yaml"}
            /\ AllServedOk)
        => fetches = Len(served)
    /\ pc = "get_projects"
        => Map(LAMBDA r : r.slug, repositories) = Map(LAMBDA i : i.slug, ServedItems)
    /\ pc = "yaml"
        => Map(LAMBDA r : r.key, projects) = Map(LAMBDA i : i.key, ServedItems)

C3_UniqueKeyIsNew ==
    (script = "provision" /\ collided /\ pc = "create")
        => /\ last_check # 200
           /\ project_key # generate_project_key(project_name, business_area)

\* ---------------------------------------------------------------- C4
\* C4: every repository whose pipeline was started (its clone was
\* attempted) has had cleanup_repository run by the time the run ends.
Started == {log[i].repo : i \in {j \in 1..Len(log) : log[j].step = "clone"}}

Cleaned == {log[i].repo : i \in {j \in 1..Len(log) : log[j].step = "cleanup"}}

C4_CleanupAlwaysRuns == (script = "search" /\ Terminated) => Started \subseteq Cleaned

\* ---------------------------------------------------------------- C5
\* C5: a read of the inspector that fails (a status other than 200) has an
\* empty result and does not end the run: the reads after it are executed
\* and all three sections are reported.
ResultOf(name) ==
    CASE name = "default_reviewers" -> default_reviewers
      [] name = "merge_checks" -> merge_checks
      [] name = "branch_restrictions" -> branch_restrictions

C5_ReadsIndependent ==
    \A i \in 1..Len(reads) :
        reads[i].status # 200
            => /\ ResultOf(reads[i].name) = <<>>
               /\ ~(pc = "aborted" /\ i = Len(reads))
               /\ Terminated => Len(report) = 3

\* ---------------------------------------------------------------- C6
\* C6: the list handed to the mutation pipeline holds every repository
\* found in the search hits exactly once, in the order of the first
\* occurrences across the pages, and no repository is cloned twice.
RawRepositories == Map(LAMBDA item : item.file.links.self.href[5], ServedItems)

FirstIndex(l, x) == CHOOSE i \in 1..Len(l) : l[i] = x /\ \A j \in 1..(i - 1) : l[j] # x

IsFirstOccurrences(t, raw) ==
    /\ Range(t) = Range(raw)
    /\ \A i, j \in 1..Len(t) : i # j => t[i] # t[j]
    /\ \A i, j \in 1..Len(t) : i < j => FirstIndex(raw, t[i]) < FirstIndex(raw, t[j])

Clones(r) == {i \in 1..Len(log) : log[i].step = "clone" /\ log[i].repo = r}

PipelinePcs == {"for_repository", "branch", "edit", "commit", "push", "create_pr",
                "cleanup", "input"}

C6_TargetsDeduplicated ==
    (script = "search" /\ (pc \in PipelinePcs \/ (Terminated /\ ri > 0)))
        => /\ IsFirstOccurrences(all_repositories, RawRepositories)
           /\ \A r \in Repos : Cardinality(Clones(r)) <= 1

\* The hits [repoA, repoB, repoA] were handed over as [repoA, repoB], and
\* both were processed.
C6_Witness ==
    /\ pc = "done"
    /\ RawRepositories = <<"repoA", "repoB", "repoA">>
    /\ all_repositories = <<"repoA", "repoB">>
    /\ Cardinality(Clones("repoA")) = 1 /\ Cardinality(Clones("repoB")) = 1

\* ---------------------------------------------------------------- C7
\* C7 as stated: the key of two inputs of at least 3 characters each has
\* exactly 7 characters.
HasKey == script = "provision" /\ pc = "check"

C7_SevenCharacters ==
    (HasKey /\ Len(project_name) >= 3 /\ Len(business_area) >= 3)
        => Len(project_key) = 7

\* C7 as amended: the key is the upper-cased first 3 characters of the
\* business area, an underscore and the upper-cased first 3 characters of
\* the project name ("Foundation", "Finance" gives "FIN_FOU"); it has
\* exactly 7 characters whenever both inputs have at least 3 characters and
\* each of those characters upper-cases to a single character.
Capital(c) ==
    IF \E i \in 1..Len(LowerCase) : LowerCase[i] = c
    THEN UpperCase[CHOOSE i \in 1..Len(LowerCase) : LowerCase[i] = c]
    ELSE c

Plain(str) == \A i \in 1..Len(str) : str[i] # Eszett

C7_KeyOfPlainInputs ==
    /\ generate_project_key(<<"F", "o", "u", "n", "d", "a", "t", "i", "o", "n">>,
                            <<"F", "i", "n", "a", "n", "c", "e">>)
            = <<"F", "I", "N", "_", "F", "O", "U">>
    /\ (HasKey /\ Len(project_name) >= 3 /\ Len(business_area) >= 3
            /\ Plain(Take(project_name, 3)) /\ Plain(Take(business_area, 3)))
        => /\ Len(project_key) = 7
           /\ project_key[4] = "_"
           /\ \A i \in 1..3 : /\ project_key[i] = Capital(business_area[i])
                               /\ project_key[4 + i] = Capital(project_name[i])
    /\ HasKey
        => \E k \in 1..Len(project_key) :
             /\ project_key[k] = "_"
             /\ Len(project_key) - k >= Len(Take(project_name, 3))
             /\ k - 1 >= Len(Take(business_area, 3))
             /\ (Plain(business_area) /\ Plain(project_name))
                    => /\ k - 1 = Len(Take(business_area, 3))
                       /\ Len(project_key) - k = Len(Take(project_name, 3))

\* A key of mixed-case inputs of 3 characters without an eszett.
C7_Witness ==
    /\ HasKey
    /\ project_name = <<"a", "B", "1">> /\ business_area = <<"B", "a", "a">>
    /\ project_key = <<"B", "A", "A", "_", "A", "B", "1">>

\* ---------------------------------------------------------------- C8
\* C8: a page fetched with status 200 whose body lacks 'values' does not
\* fail the collection: no repositories or projects page ends the run
\* with a KeyError.
C8_MissingValuesIsEmptyPage ==
    ~(pc = "aborted" /\ error.kind = "KeyError" /\ error.at \in {"repositories", "projects"})

\* ---------------------------------------------------------------- C9
\* C9: group and permission calls are issued only after the project POST
\* returned 201; then the group POSTs are, in this order, the one for
\* '{business}-{project}-Development' and the one for
\* '{business}-{project}-AppSupport' (both issued once the run is done),
\* and a permission PUT follows the POST of its own group, grants 'write'
\* to Development and 'admin' to AppSupport, and is on the key the platform
\* reported for the created project.
Creates == {i \in 1..Len(calls) : calls[i].method = "POST" /\ calls[i].target = "project"}

GroupCalls == {i \in 1..Len(calls) : calls[i].target \in {"group", "permission"}}

RECURSIVE Select(_, _)
Select(l, target) ==
    IF l = <<>> THEN <<>>
    ELSE IF Head(l).target = target THEN <<Head(l).group>> \o Select(Tail(l), target)
    ELSE Select(Tail(l), target)

Development == <<business_area, "-", project_name, "-", "Development">>

AppSupport == <<business_area, "-", project_name, "-", "AppSupport">>

AllEdges == Map(LAMBDA g : [slug |-> g.group.slug, permission |-> g.permission],
                Flatten(perm_pages))

C10_AllGroupEdges ==
    /\ (pc \in {"repos_for", "repos_while", "get_projects"} /\ repositories # <<>>)
        => Last(repositories).groups = AllEdges
    /\ (pc \in {"projs_for", "projs_while", "yaml"} /\ projects # <<>>)
        => Last(projects).groups = AllEdges

\* --------------------------------------------------------------- C11
\* C11: in the audit, a GET answered with a status other than 200 (a page of
\* a collection, a nested group-permissions call, the groups call) aborts the
\* run: no step of the run follows it and the YAML report is not written.
FailedGet ==
    \/ error.kind = "http"
    \/ \E i \in 1..Len(served) : served[i].status # 200

C11_FailedGetAbortsRun ==
    (script = "audit" /\ FailedGet)
        => /\ pc = "aborted"
           /\ yaml_output = <<>>
           /\ ~ENABLED audit_main

\* The nested call of the second repository fails after the record of the
\* first one was built.
C11_Witness ==
    /\ script = "audit" /\ pc = "aborted"
    /\ error = [kind |-> "http", at |-> "repository groups"]
    /\ repositories # <<>>
    /\ yaml_output = <<>>

\* --------------------------------------------------------------- C12
\* C12: every HTTP request carries the basic-auth credentials, the
\* existence check of a project key included.  Stated of the provisioner,
\* whose calls are recorded one by one.
C12_EveryCallAuthenticated ==
    \A i \in 1..Len(calls) : calls[i].auth

\* --------------------------------------------------------------- C13
\* C13: a paginated loop ends as soon as a fetched page has no 'next',
\* whatever the page holds, an empty item array included: back at the head
\* of the while loop after such a page the endpoint is None, so the page is
\* not fetched again.
C13_NoNextEndsLoop ==
    (/\ pc \in {"repos_while", "projs_while", "search_while"}
     /\ fetches > 0
     /\ data.status = 200
     /\ data.next = None)
        => endpoint = None

\* --------------------------------------------------------------- C14
\* C14: for every target repository the steps run in the order clone,
\* branch, edit, commit, push, change request, cleanup, pause; a step starts
\* only after the one before it returned, and no step of the next repository
\* starts before the pause of the current one is over.  The log of the run
\* is therefore the eight steps of the first target, then the eight steps of
\* the second, and so on, cut where the run stands or was aborted.
StepOrder == <<"clone", "branch", "edit", "commit", "push", "create_pr", "cleanup", "input">>

C14_StepsInFixedOrder ==
    /\ Len(log) <= Len(StepOrder) * Len(all_repositories)
    /\ \A i \in 1..Len(log) :
        /\ log[i].step = StepOrder[((i - 1) % Len(StepOrder)) + 1]
        /\ log[i].repo = all_repositories[((i - 1) \div Len(StepOrder)) + 1]
        /\ (i > 1 /\ log[i - 1].step \in GitSteps) => log[i - 1].ok

\* Two targets were processed to the end.
C14_Witness ==
    /\ script = "search" /\ pc = "done"
    /\ Len(all_repositories) = 2
    /\ Len(log) = 2 * Len(StepOrder)

\* --------------------------------------------------------------- C15
\* C15: the existence check maps 200 to 'exists' and 404 and every other
\* status to 'does not exist', so a key whose check was answered with a
\* status other than 200 is accepted and is the key of the project-create
\* call: the create call is the next call of the run.
Checks == {i \in 1..Len(calls) : calls[i].method = "GET" /\ calls[i].target = "project"}

C15_Not200IsAccepted ==
    script = "provision" =>
        \A i \in Checks :
            IF calls[i].status = 200
            THEN i = Len(calls) => pc = "unique"
            ELSE IF i = Len(calls)
            THEN pc = "create" /\ project_key = calls[i].key
            ELSE i + 1 \in Creates /\ calls[i + 1].key = calls[i].key

\* --------------------------------------------------------------- C16
\* C16: the permission of a group is assigned only after the create of that
\* group was answered 200; a failure of a call of the Development pair does
\* not keep the AppSupport pair from being attempted; no delete of a project
\* or of a group is ever issued.
C16_PairsIndependent ==
    script = "provision" =>
        /\ \A i \in 1..Len(calls) : calls[i].target = "permission" =>
            /\ i > 1 /\ calls[i - 1].target = "group"
            /\ calls[i - 1].group = calls[i].group /\ calls[i - 1].status = 200
        /\ (Terminated /\ \E i \in GroupCalls :
                            calls[i].group = Development /\ calls[i].status # 200)
            => \E j \in GroupCalls : calls[j].target = "group" /\ calls[j].group = AppSupport
        /\ \A i \in 1..Len(calls) : calls[i].method # "DELETE"

\* --------------------------------------------------------------- C17
\* C17: generate_unique_project_key eventually returns, for every project
\* name and every fixed set of existing keys that holds the deterministic
\* key.  The loop returns only through a candidate key that the existence
\* check does not report as existing, so the claim needs, at every pass of
\* the loop, a permutation of the name whose key is not an existing one.
CandidateKeys ==
    {upper(Take(business_area, 3)) \o <<"_">> \o upper(Take(s, 3)) : s \in Shuffles(project_name)}

C17_AcceptedKeyReachable ==
    (script = "provision" /\ pc = "unique")
        => \E key \in CandidateKeys : key \notin exists_yes

\* --------------------------------------------------------------- C18
\* C18: a code-search page answered with a status other than 200 ends the
\* discovery without an exception: it is the last page fetched, the run is
\* not aborted by it, and the pipeline runs for exactly the deduplicated
\* repositories of the pages fetched before it (for none if it was the first
\* page); no repository of a page that was not fetched is touched.
C18_FailedPageEndsDiscovery ==
    script = "search" =>
        /\ \A i \in 1..Len(served) : served[i].status # 200 =>
            /\ i = Len(served) /\ fetches = Len(served)
            /\ pc # "search_while"
        /\ pc = "aborted" => error.kind = "GitCommandError"
        /\ (pc \in PipelinePcs \/ (Terminated /\ ri > 0)) =>
            /\ IsFirstOccurrences(all_repositories, RawRepositories)
            /\ \A i \in 1..Len(log) : log[i].repo \in Range(RawRepositories)
        /\ pc = "done" => \A r \in Range(RawRepositories) : Clones(r) # {}

\* The second page failed and the repositories of the first page were
\* processed to the end.
C18_Witness ==
    /\ script = "search" /\ pc = "done"
    /\ Len(served) = 2 /\ served[1].status = 200 /\ served[2].status # 200
    /\ all_repositories # <<>>
    /\ Len(log) = Len(StepOrder) * Len(all_repositories)

====
